---- MODULE Spec2Model ----
(***************************************************************************)
(* A model of structify (src/structify/__init__.py): field descriptors     *)
(* (StructField), the metaclass that compiles a record layout (MetaStruct),*)
(* records (Struct) and the stream helper (FileHelper), together with the  *)
(* part of Python's struct module the library calls.                       *)
(*                                                                         *)
(* Python values are records [t, neg, d]:                                  *)
(*   None   t = "None"                                                     *)
(*   int    t = "int",   neg = sign, d = magnitude, base-256 digits, least *)
(*                       significant first, no leading zero digit          *)
(*   float  t = "float", d = the 8 bytes of the IEEE-754 double, most      *)
(*                       significant first                                 *)
(*   bytes  t = "bytes", d = the bytes                                     *)
(***************************************************************************)
EXTENDS Integers, Sequences, FiniteSets

VARIABLES byteorder, count_, fields, namespace, classes, cls, values, fp, last

vars == <<byteorder, count_, fields, namespace, classes, cls, values, fp, last>>

---------------------------------------------------------------------------
(* Module constants, lines 6-24 *)

INT8_T == "b"
UINT8_T == "B"
INT16_T == "h"
UINT16_T == "H"
INT32_T == "i"
UINT32_T == "I"
INT64_T == "q"
UINT64_T == "Q"
CHAR == "s"
FLOAT32_T == "f"
FLOAT64_T == "d"

BYTE_ORDER_NATIVE == "@"
BYTE_ORDER_NATIVE_STD == "="
BYTE_ORDER_LITTLE_ENDIAN == "<"
BYTE_ORDER_BIG_ENDIAN == ">"
BYTE_ORDER_NETWORK == "!"

DEFAULT_BYTE_ORDER == BYTE_ORDER_LITTLE_ENDIAN

FieldTypes ==
    {INT8_T, UINT8_T, INT16_T, UINT16_T, INT32_T, UINT32_T, INT64_T, UINT64_T,
     CHAR, FLOAT32_T, FLOAT64_T}

ByteOrders ==
    {BYTE_ORDER_NATIVE, BYTE_ORDER_NATIVE_STD, BYTE_ORDER_LITTLE_ENDIAN,
     BYTE_ORDER_BIG_ENDIAN, BYTE_ORDER_NETWORK}

---------------------------------------------------------------------------
(* Python values *)

None == [t |-> "None", neg |-> FALSE, d |-> <<>>]

PyInt(neg, digits) == [t |-> "int", neg |-> neg, d |-> digits]

PyFloat(b8) == [t |-> "float", neg |-> FALSE, d |-> b8]

PyBytes(bs) == [t |-> "bytes", neg |-> FALSE, d |-> bs]

Zeros(n) == [k \in 1..n |-> 0]

Ones(n) == [k \in 1..n |-> 1]

Reverse(s) == [k \in 1..Len(s) |-> s[Len(s) + 1 - k]]

RECURSIVE Strip(_)
(* a digit sequence without its leading (most significant, last) zeros *)
Strip(ds) ==
    IF ds = <<>> \/ ds[Len(ds)] # 0 THEN ds ELSE Strip(SubSeq(ds, 1, Len(ds) - 1))

RECURSIVE TwosNeg(_, _)
(* two's complement negation of a little-endian byte sequence; c = 1 at the start *)
TwosNeg(bs, c) ==
    IF bs = <<>> THEN <<>>
    ELSE LET v == (255 - Head(bs)) + c
         IN  <<v % 256>> \o TwosNeg(Tail(bs), v \div 256)

ByteBits(b) == [k \in 1..8 |-> (b \div (2 ^ (8 - k))) % 2]

RECURSIVE BytesBits(_)
BytesBits(bs) ==
    IF bs = <<>> THEN <<>> ELSE ByteBits(Head(bs)) \o BytesBits(Tail(bs))

RECURSIVE BitsNat(_)
(* the number a bit sequence (most significant first, at most 31 bits) denotes *)
BitsNat(bits) ==
    IF bits = <<>> THEN 0
    ELSE 2 * BitsNat(SubSeq(bits, 1, Len(bits) - 1)) + bits[Len(bits)]

NatBits(n, w) == [k \in 1..w |-> (n \div (2 ^ (w - k))) % 2]

RECURSIVE BitsBytes(_)
BitsBytes(bits) ==
    IF bits = <<>> THEN <<>>
    ELSE <<BitsNat(SubSeq(bits, 1, 8))>> \o BitsBytes(SubSeq(bits, 9, Len(bits)))

IsNaN(v) ==
    /\ v.t = "float"
    /\ LET bits == BytesBits(v.d)
       IN  /\ BitsNat(SubSeq(bits, 2, 12)) = 2047
           /\ \E i \in 13..64 : bits[i] = 1

IsZeroFloat(v) ==
    /\ v.t = "float"
    /\ \A i \in 2..8 : v.d[i] = 0
    /\ v.d[1] \in {0, 128}

RECURSIVE StripBits(_)
(* a bit sequence (most significant first) without its leading zeros *)
StripBits(bits) ==
    IF bits = <<>> \/ Head(bits) = 1 THEN bits ELSE StripBits(Tail(bits))

RECURSIVE IncBits(_)
(* a bit sequence plus one; one bit longer when the carry runs out of it *)
IncBits(bits) ==
    IF bits = <<>> THEN <<1>>
    ELSE IF bits[Len(bits)] = 0 THEN SubSeq(bits, 1, Len(bits) - 1) \o <<1>>
    ELSE IncBits(SubSeq(bits, 1, Len(bits) - 1)) \o <<0>>

(* float(n) for a Python int: the nearest double, ties to even; exact tells
   whether n is that double *)
IntToDouble(v) ==
    LET B == StripBits(BytesBits(Reverse(v.d)))
        s == IF v.neg THEN 1 ELSE 0
    IN  IF B = <<>> THEN [exact |-> TRUE, d |-> Zeros(8)]
        ELSE LET S == B \o Zeros(54)
                 mant == SubSeq(S, 1, 53)
                 rnd == S[54]
                 sticky == \E i \in 55..Len(S) : S[i] = 1
                 up == rnd = 1 /\ (sticky \/ mant[53] = 1)
                 m2 == IF up THEN IncBits(mant) ELSE mant
                 e == IF Len(m2) = 54 THEN Len(B) ELSE Len(B) - 1
             IN  [exact |-> rnd = 0 /\ ~sticky,
                  d |-> BitsBytes(<<s>> \o NatBits(e + 1023, 11) \o SubSeq(m2, 2, 53))]

(* Python's == on the values a record holds *)
PyEq(x, y) ==
    IF x.t = "float" /\ y.t = "float"
    THEN /\ ~IsNaN(x)
         /\ ~IsNaN(y)
         /\ (x.d = y.d \/ (IsZeroFloat(x) /\ IsZeroFloat(y)))
    ELSE IF x.t = "int" /\ y.t = "float"
    THEN IntToDouble(x).exact /\ (IntToDouble(x).d = y.d \/ (x.d = <<>> /\ IsZeroFloat(y)))
    ELSE IF x.t = "float" /\ y.t = "int"
    THEN IntToDouble(y).exact /\ (IntToDouble(y).d = x.d \/ (y.d = <<>> /\ IsZeroFloat(x)))
    ELSE x = y

---------------------------------------------------------------------------
(* Python's struct module, as the library calls it *)

NoExc == "ok"

Width(c, n) ==
    CASE c \in {"b", "B"} -> 1
      [] c \in {"h", "H"} -> 2
      [] c \in {"i", "I", "f"} -> 4
      [] c \in {"q", "Q", "d"} -> 8
      [] c = "s" -> n

(* alignment applied in every mode, the standard ones included *)
AlignmentInEveryMode(order, c) ==
    IF c # "s" THEN Width(c, 1) ELSE 1

(* '@' aligns each native type to its size; the other modes do not align *)
Alignment(order, c) ==
    IF order = "@" /\ c # "s" THEN Width(c, 1) ELSE 1

(* the byte order of a format prefix; '@' and '=' are sys.byteorder *)
Endian(order) ==
    CASE order = "<" -> "little"
      [] order \in {">", "!"} -> "big"
      [] OTHER -> byteorder

AlignUp(size, a) == ((size + a - 1) \div a) * a

(* struct.Struct(fmt) rejects "-1s": '-' is no format character *)
ValidFormat(fmt) == \A k \in 1..Len(fmt) : fmt[k].c = "s" => fmt[k].n >= 0

RECURSIVE CalcSizeFrom(_, _, _)
CalcSizeFrom(order, fmt, size) ==
    IF fmt = <<>> THEN size
    ELSE CalcSizeFrom(order, Tail(fmt),
             AlignUp(size, Alignment(order, Head(fmt).c))
                 + Width(Head(fmt).c, Head(fmt).n))

(* struct.calcsize, Struct.size *)
CalcSize(order, fmt) == CalcSizeFrom(order, fmt, 0)

(* an integer as w bytes, least significant first *)
PackInt(c, v) ==
    LET w == Width(c, 1)
        m == v.d
        pad == m \o Zeros(w - Len(m))
        signed == c \in {"b", "h", "i", "q"}
    IN  IF v.t # "int" THEN [exc |-> "struct.error", b |-> <<>>]
        ELSE IF ~signed
        THEN IF v.neg \/ Len(m) > w
             THEN [exc |-> "struct.error", b |-> <<>>]
             ELSE [exc |-> NoExc, b |-> pad]
        ELSE IF ~v.neg
        THEN IF Len(m) < w \/ (Len(m) = w /\ m[w] < 128)
             THEN [exc |-> NoExc, b |-> pad]
             ELSE [exc |-> "struct.error", b |-> <<>>]
        ELSE IF \/ Len(m) < w
                \/ /\ Len(m) = w
                   /\ (m[w] < 128 \/ (m[w] = 128 /\ \A i \in 1..(w - 1) : m[i] = 0))
             THEN [exc |-> NoExc, b |-> TwosNeg(pad, 1)]
             ELSE [exc |-> "struct.error", b |-> <<>>]

(* w bytes, least significant first, as an integer *)
UnpackInt(c, bs) ==
    LET w == Len(bs)
        signed == c \in {"b", "h", "i", "q"}
    IN  IF signed /\ bs[w] >= 128
        THEN PyInt(TRUE, Strip(TwosNeg(bs, 1)))
        ELSE PyInt(FALSE, Strip(bs))

(* a double (8 bytes, most significant first) as a single (4 bytes): the C
   conversion (float)x, round to nearest, ties to even; a finite double that
   becomes infinite raises OverflowError *)
DoubleToSingle(d8) ==
    LET bits == BytesBits(d8)
        s == bits[1]
        E == BitsNat(SubSeq(bits, 2, 12))
        F == SubSeq(bits, 13, 64)
        e == E - 1023
    IN  IF E = 2047
        THEN IF \E i \in 1..52 : F[i] = 1
             THEN [exc |-> NoExc,
                   b |-> BitsBytes(<<s>> \o Ones(8) \o <<1>> \o SubSeq(F, 2, 23))]
             ELSE [exc |-> NoExc, b |-> BitsBytes(<<s>> \o Ones(8) \o Zeros(23))]
        ELSE IF E = 0 THEN [exc |-> NoExc, b |-> BitsBytes(<<s>> \o Zeros(31))]
        ELSE IF e > 127 THEN [exc |-> "OverflowError", b |-> <<>>]
        ELSE LET Eb == IF e + 127 >= 1 THEN e + 127 ELSE 1
                 shift0 == Eb - (e + 127)
                 shift == IF shift0 > 26 THEN 26 ELSE shift0
                 S == Zeros(shift) \o <<1>> \o F
                 mant == BitsNat(SubSeq(S, 1, 24))
                 rnd == S[25]
                 sticky == \E i \in 26..Len(S) : S[i] = 1
                 up == IF rnd = 1 /\ (sticky \/ mant % 2 = 1) THEN 1 ELSE 0
                 m31 == (Eb - 1) * (2 ^ 23) + mant + up
             IN  IF m31 >= 255 * (2 ^ 23)
                 THEN [exc |-> "OverflowError", b |-> <<>>]
                 ELSE [exc |-> NoExc, b |-> BitsBytes(<<s>> \o NatBits(m31, 31))]

(* a single (4 bytes, most significant first) as the double of the same value *)
SingleToDouble(b4) ==
    LET bits == BytesBits(b4)
        s == bits[1]
        Eb == BitsNat(SubSeq(bits, 2, 9))
        F == SubSeq(bits, 10, 32)
        nz == \E i \in 1..23 : F[i] = 1
    IN  IF Eb = 255
        THEN IF nz
             THEN BitsBytes(<<s>> \o Ones(11) \o <<1>> \o SubSeq(F, 2, 23) \o Zeros(29))
             ELSE BitsBytes(<<s>> \o Ones(11) \o Zeros(52))
        ELSE IF Eb = 0
        THEN IF ~nz THEN BitsBytes(<<s>> \o Zeros(63))
             ELSE LET p == CHOOSE i \in 1..23 :
                               F[i] = 1 /\ \A j \in 1..(i - 1) : F[j] = 0
                  IN  BitsBytes(<<s>> \o NatBits(897 - p, 11)
                                  \o SubSeq(F, p + 1, 23) \o Zeros(29 + p))
        ELSE BitsBytes(<<s>> \o NatBits(Eb + 896, 11) \o F \o Zeros(29))

(* one value as the bytes of one format item, in memory order; the native
   mode '@' casts a double to a C float unchecked, the others raise
   OverflowError when the cast overflows *)
PackItem(order, c, n, v) ==
    LET swap(r) ==
            IF r.exc = NoExc /\ Endian(order) = "little"
            THEN [r EXCEPT !.b = Reverse(r.b)] ELSE r
    IN  CASE c = "s" ->
                 IF v.t # "bytes" THEN [exc |-> "struct.error", b |-> <<>>]
                 ELSE [exc |-> NoExc,
                       b |-> [k \in 1..n |-> IF k <= Len(v.d) THEN v.d[k] ELSE 0]]
          [] c \in {"f", "d"} ->
                 IF v.t \notin {"float", "int"} THEN [exc |-> "struct.error", b |-> <<>>]
                 ELSE LET d8 == IF v.t = "int" THEN IntToDouble(v).d ELSE v.d
                          f4 == DoubleToSingle(d8)
                          inf == <<(d8[1] \div 128) * 128 + 127, 128, 0, 0>>
                      IN  IF c = "d" THEN swap([exc |-> NoExc, b |-> d8])
                          ELSE IF order = "@" /\ f4.exc = "OverflowError"
                          THEN swap([exc |-> NoExc, b |-> inf])
                          ELSE swap(f4)
          [] OTHER ->
                 LET r == PackInt(c, v)
                 IN  IF r.exc = NoExc /\ Endian(order) = "big"
                     THEN [r EXCEPT !.b = Reverse(r.b)] ELSE r

(* the value the bytes of one format item denote *)
UnpackItem(order, c, bs) ==
    CASE c = "s" -> PyBytes(bs)
      [] c = "d" -> PyFloat(IF Endian(order) = "little" THEN Reverse(bs) ELSE bs)
      [] c = "f" ->
             PyFloat(SingleToDouble(IF Endian(order) = "little" THEN Reverse(bs) ELSE bs))
      [] OTHER -> UnpackInt(c, IF Endian(order) = "big" THEN Reverse(bs) ELSE bs)

RECURSIVE PackFrom(_, _, _, _)
PackFrom(order, fmt, vals, out) ==
    IF fmt = <<>> THEN [exc |-> NoExc, b |-> out]
    ELSE LET a == AlignUp(Len(out), Alignment(order, Head(fmt).c))
             r == PackItem(order, Head(fmt).c, Head(fmt).n, Head(vals))
         IN  IF r.exc # NoExc THEN r
             ELSE PackFrom(order, Tail(fmt), Tail(vals),
                           out \o Zeros(a - Len(out)) \o r.b)

(* struct.pack and Struct.pack on the values vals *)
StructPack(order, fmt, vals) ==
    IF Len(vals) # Len(fmt) THEN [exc |-> "struct.error", b |-> <<>>]
    ELSE PackFrom(order, fmt, vals, <<>>)

RECURSIVE UnpackFrom(_, _, _, _)
UnpackFrom(order, fmt, bs, off) ==
    IF fmt = <<>> THEN <<>>
    ELSE LET a == AlignUp(off, Alignment(order, Head(fmt).c))
             w == Width(Head(fmt).c, Head(fmt).n)
         IN  <<UnpackItem(order, Head(fmt).c, SubSeq(bs, a + 1, a + w))>>
                 \o UnpackFrom(order, Tail(fmt), bs, a + w)

(* struct.unpack(order + fmt, bs), Struct.unpack(bs): a tuple, or struct.error
   when the buffer is not exactly the size of the format *)
StructUnpack(order, fmt, bs) ==
    IF Len(bs) # CalcSize(order, fmt) THEN [exc |-> "struct.error", items |-> <<>>]
    ELSE [exc |-> NoExc, items |-> UnpackFrom(order, fmt, bs, 0)]

---------------------------------------------------------------------------
(* StructField, lines 33-63.  str_len is [none, n]: None, or the integer n. *)

NoStrLen == [none |-> TRUE, n |-> 0]

StrLen(n) == [none |-> FALSE, n |-> n]

(* Python's truth value of str_len: None and 0 are false *)
Truthy(str_len) == ~str_len.none /\ str_len.n # 0

(* StructField.__init__ with the class counter at cnt: the new descriptor, or
   StructException *)
StructFieldInit(field_type, default, str_len, cnt) ==
    IF field_type = CHAR /\ ~Truthy(str_len)
    THEN [exc |-> "StructException", count_ |-> cnt,
          field |-> [field_type |-> field_type, default |-> default,
                     str_len |-> str_len, count |-> cnt, index |-> 0, name |-> ""]]
    ELSE [exc |-> NoExc, count_ |-> cnt + 1,
          field |-> [field_type |-> field_type, default |-> default,
                     str_len |-> str_len, count |-> cnt, index |-> 0, name |-> ""]]

---------------------------------------------------------------------------
(* MetaStruct.__new__, lines 110-144.  A class is a record: base (the parent
   class, "object" for Struct), dict (its own StructField attributes, in the
   order of the class body, as [attr, id]), BYTE_ORDER (its own attribute, ""
   when the body sets none) and the attributes the metaclass computes. *)

(* d[k] = v on a Python dict: a new key goes last, a known key keeps its place *)
DictSet(d, k, v) ==
    IF \E i \in 1..Len(d) : d[i].attr = k
    THEN [i \in 1..Len(d) |-> IF d[i].attr = k THEN [attr |-> k, id |-> v] ELSE d[i]]
    ELSE Append(d, [attr |-> k, id |-> v])

RECURSIVE DictUpdate(_, _)
DictUpdate(d, items) ==
    IF items = <<>> THEN d
    ELSE DictUpdate(DictSet(d, Head(items).attr, Head(items).id), Tail(items))

RECURSIVE StructFields(_, _, _)
(* lines 115-119: the walk over reversed(__mro__), most-base class first *)
StructFields(clss, base, dict) ==
    IF base = "object" THEN DictUpdate(<<>>, dict)
    ELSE DictUpdate(StructFields(clss, clss[base].base, clss[base].dict), dict)

RECURSIVE InsertByCount(_, _, _)
InsertByCount(id, ids, flds) ==
    IF ids = <<>> THEN <<id>>
    ELSE IF flds[id].count < flds[Head(ids)].count THEN <<id>> \o ids
    ELSE <<Head(ids)>> \o InsertByCount(id, Tail(ids), flds)

RECURSIVE SortFrom(_, _, _)
SortFrom(ids, acc, flds) ==
    IF ids = <<>> THEN acc
    ELSE SortFrom(Tail(ids), InsertByCount(Head(ids), acc, flds), flds)

(* the fields left in the order the dictionary holds them *)
unsorted(ids, flds) == ids

(* line 125: sorted(struct_fields.values(), key=lambda f: f.count) *)
sorted(ids, flds) == SortFrom(ids, <<>>, flds)

(* lines 130-133: the format item of one field *)
FormatItem(field) ==
    [n |-> IF field.field_type = CHAR THEN field.str_len.n ELSE 1,
     c |-> field.field_type]

RECURSIVE GetByteOrder(_, _, _)
(* getattr(new_class, 'BYTE_ORDER', DEFAULT_BYTE_ORDER): the nearest class of
   the MRO that sets it *)
GetByteOrder(clss, base, own) ==
    IF own # "" THEN own
    ELSE IF base = "object" THEN DEFAULT_BYTE_ORDER
    ELSE GetByteOrder(clss, clss[base].base, clss[base].BYTE_ORDER)

(* MetaStruct.__new__(mcs, name, bases, attrs): the class, the descriptors as
   it leaves them (type.__new__ calls __set_name__, line 134 sets index), and
   struct.error when struct.Struct refuses the format *)
MetaStructNew(clss, flds, base, attrs, order) ==
    LET named == [id \in DOMAIN flds |->
                     IF \E i \in 1..Len(attrs) : attrs[i].id = id
                     THEN [flds[id] EXCEPT !.name =
                              attrs[CHOOSE i \in 1..Len(attrs) : attrs[i].id = id].attr]
                     ELSE flds[id]]
        struct_fields == StructFields(clss, base, attrs)
        field_list == sorted([i \in 1..Len(struct_fields) |-> struct_fields[i].id], named)
        pos(id) == CHOOSE k \in 1..Len(field_list) : field_list[k] = id
        indexed == [id \in DOMAIN named |->
                       IF \E k \in 1..Len(field_list) : field_list[k] = id
                       THEN [named[id] EXCEPT !.index = pos(id) - 1]
                       ELSE named[id]]
        fmt == [k \in 1..Len(field_list) |-> FormatItem(named[field_list[k]])]
        names == {named[field_list[k]].name : k \in 1..Len(field_list)}
        byte_order == GetByteOrder(clss, base, order)
    IN  [exc |-> IF ValidFormat(fmt) THEN NoExc ELSE "struct.error",
         fields |-> indexed,
         class |->
            [base |-> base,
             dict |-> attrs,
             BYTE_ORDER |-> order,
             _NAME_INDEX_MAP |->
                 [nm \in names |->
                     (CHOOSE k \in 1..Len(field_list) :
                         /\ named[field_list[k]].name = nm
                         /\ \A j \in (k + 1)..Len(field_list) :
                                named[field_list[j]].name # nm) - 1],
             _DEFAULT_VALUES |->
                 [k \in 1..Len(field_list) |-> named[field_list[k]].default],
             _BASE_STRUCT_FORMAT |-> fmt,
             _STRUCT_FORMAT |-> [order |-> byte_order, fmt |-> fmt],
             _PACKER |-> [order |-> byte_order, fmt |-> fmt,
                          size |-> IF ValidFormat(fmt)
                                   THEN CalcSize(byte_order, fmt) ELSE 0]]]

(* class Struct(metaclass=MetaStruct), lines 147-156: no fields, little-endian *)
StructClass == MetaStructNew(<<>>, <<>>, "object", <<>>, DEFAULT_BYTE_ORDER).class

---------------------------------------------------------------------------
(* Struct, lines 147-194.  A record's values are [kind, items]: a Python list
   or a tuple (struct.unpack returns a tuple). *)

(* a constructor that reports one unknown keyword only *)
StructInitFirstUnknown(c, kwargs) ==
    LET nim == c._NAME_INDEX_MAP
        rest == DOMAIN kwargs \ DOMAIN nim
        items == [k \in 1..Len(c._DEFAULT_VALUES) |->
                     IF \E nm \in DOMAIN kwargs \cap DOMAIN nim : nim[nm] = k - 1
                     THEN kwargs[CHOOSE nm \in DOMAIN kwargs \cap DOMAIN nim :
                                     nim[nm] = k - 1]
                     ELSE c._DEFAULT_VALUES[k]]
    IN  [exc |-> IF rest # {} THEN "StructException" ELSE NoExc,
         values |-> [kind |-> "list", items |-> items],
         keys |-> IF rest = {} THEN {} ELSE {CHOOSE nm \in rest : TRUE}]

(* Struct.__init__ with keyword arguments: kwargs is a function from names to values;
   keys are the kwargs left over, which the exception reports *)
StructInit(c, kwargs) ==
    LET nim == c._NAME_INDEX_MAP
        rest == DOMAIN kwargs \ DOMAIN nim
        items == [k \in 1..Len(c._DEFAULT_VALUES) |->
                     IF \E nm \in DOMAIN kwargs \cap DOMAIN nim : nim[nm] = k - 1
                     THEN kwargs[CHOOSE nm \in DOMAIN kwargs \cap DOMAIN nim :
                                     nim[nm] = k - 1]
                     ELSE c._DEFAULT_VALUES[k]]
    IN  [exc |-> IF rest # {} THEN "StructException" ELSE NoExc,
         values |-> [kind |-> "list", items |-> items],
         keys |-> rest]

(* Struct.get_field_value, lines 171-172 *)
get_field_value(c, vals, name) ==
    IF name \notin DOMAIN c._NAME_INDEX_MAP THEN [exc |-> "KeyError", ret |-> None]
    ELSE [exc |-> NoExc, ret |-> vals.items[c._NAME_INDEX_MAP[name] + 1]]

(* Struct.set_field_value, lines 174-175: item assignment, which a tuple
   refuses with TypeError *)
set_field_value(c, vals, name, value) ==
    IF name \notin DOMAIN c._NAME_INDEX_MAP THEN [exc |-> "KeyError", values |-> vals]
    ELSE IF vals.kind = "tuple" THEN [exc |-> "TypeError", values |-> vals]
    ELSE [exc |-> NoExc,
          values |-> [vals EXCEPT !.items[c._NAME_INDEX_MAP[name] + 1] = value]]

(* Struct.pack, lines 177-178 *)
pack(c, vals) == StructPack(c._PACKER.order, c._PACKER.fmt, vals.items)

(* Struct.pack_endian, lines 180-181 *)
pack_endian(c, vals, byte_order) ==
    StructPack(byte_order, c._BASE_STRUCT_FORMAT, vals.items)

(* an unpack that ignores the declared byte order *)
unpack_default_order(c, vals, bytes_) ==
    LET r == StructUnpack(DEFAULT_BYTE_ORDER, c._BASE_STRUCT_FORMAT, bytes_)
    IN  [exc |-> r.exc,
         values |-> IF r.exc = NoExc THEN [kind |-> "tuple", items |-> r.items]
                    ELSE vals]

(* Struct.unpack, lines 183-184: the assignment happens only when
   struct.unpack returns *)
unpack(c, vals, bytes_) ==
    LET r == StructUnpack(c._PACKER.order, c._PACKER.fmt, bytes_)
    IN  [exc |-> r.exc,
         values |-> IF r.exc = NoExc THEN [kind |-> "tuple", items |-> r.items]
                    ELSE vals]

(* an unpack_endian that decodes the leading bytes of a longer buffer *)
unpack_endian_prefix(c, vals, bytes_, byte_order) ==
    LET size == CalcSize(byte_order, c._BASE_STRUCT_FORMAT)
        r == StructUnpack(byte_order, c._BASE_STRUCT_FORMAT,
                          IF Len(bytes_) > size THEN SubSeq(bytes_, 1, size) ELSE bytes_)
    IN  [exc |-> r.exc,
         values |-> IF r.exc = NoExc THEN [kind |-> "tuple", items |-> r.items]
                    ELSE vals]

(* Struct.unpack_endian, lines 186-188 *)
unpack_endian(c, vals, bytes_, byte_order) ==
    LET r == StructUnpack(byte_order, c._BASE_STRUCT_FORMAT, bytes_)
    IN  [exc |-> r.exc,
         values |-> IF r.exc = NoExc THEN [kind |-> "tuple", items |-> r.items]
                    ELSE vals]

(* Struct.__len__ and Struct.sizeof, lines 190-194 *)
sizeof(c) == c._PACKER.size

---------------------------------------------------------------------------
(* FileHelper, lines 197-212.  fp is a binary source [data, pos]. *)

(* fp.read(size): the next size bytes, or all that are left when fewer are *)
FileRead(f, size) ==
    LET end == IF f.pos + size <= Len(f.data) THEN f.pos + size ELSE Len(f.data)
    IN  [bytes |-> SubSeq(f.data, f.pos + 1, end), fp |-> [f EXCEPT !.pos = end]]

(* a read_into that takes a full record for a short read *)
read_into_le(f, c, vals) ==
    LET size == sizeof(c)
        rd == FileRead(f, size)
        u == unpack(c, vals, rd.bytes)
    IN  IF Len(rd.bytes) <= size
        THEN [exc |-> NoExc, ret |-> FALSE, values |-> vals, fp |-> rd.fp]
        ELSE [exc |-> u.exc, ret |-> u.exc = NoExc, values |-> u.values, fp |-> rd.fp]

(* FileHelper.read_into, lines 203-209 *)
read_into(f, c, vals) ==
    LET size == sizeof(c)
        rd == FileRead(f, size)
        u == unpack(c, vals, rd.bytes)
    IN  IF Len(rd.bytes) < size
        THEN [exc |-> NoExc, ret |-> FALSE, values |-> vals, fp |-> rd.fp]
        ELSE [exc |-> u.exc, ret |-> u.exc = NoExc, values |-> u.values, fp |-> rd.fp]

---------------------------------------------------------------------------
(* Class definitions.  A class body runs its field statements in order, each
   a call of StructField.__init__ bound to an attribute name; the class
   statement then calls MetaStruct.__new__ on the namespace the body built. *)

Extend(f, k, v) == [x \in DOMAIN f \cup {k} |-> IF x = k THEN v ELSE f[x]]

(* attr = StructField(field_type, default, str_len) in a class body; an
   exception leaves the body, whose namespace is dropped *)
FieldStatement(st, attr, field_type, default, str_len) ==
    LET r == StructFieldInit(field_type, default, str_len, st.count_)
    IN  IF r.exc # NoExc
        THEN [st EXCEPT !.exc = r.exc, !.namespace = <<>>]
        ELSE [count_ |-> r.count_,
              fields |-> Extend(st.fields, r.field.count, r.field),
              namespace |-> DictSet(st.namespace, attr, r.field.count),
              classes |-> st.classes,
              exc |-> NoExc]

(* class name(base): the end of the class body *)
ClassStatement(st, name, base, order) ==
    LET r == MetaStructNew(st.classes, st.fields, base, st.namespace, order)
    IN  [count_ |-> st.count_,
         fields |-> r.fields,
         namespace |-> <<>>,
         classes |-> IF r.exc = NoExc THEN Extend(st.classes, name, r.class)
                     ELSE st.classes,
         exc |-> r.exc]

(* the interpreter after "import structify": the counter at 0, class Struct *)
Imported ==
    [count_ |-> 0, fields |-> <<>>, namespace |-> <<>>,
     classes |-> [n \in {"Struct"} |-> StructClass], exc |-> NoExc]

RECURSIVE Run(_, _)
(* a module of class definitions, statement by statement *)
Run(st, prog) ==
    IF prog = <<>> THEN st
    ELSE IF Head(prog).k = "field"
    THEN Run(FieldStatement(st, Head(prog).name, Head(prog).field_type,
                            Head(prog).default, Head(prog).str_len), Tail(prog))
    ELSE Run(ClassStatement(st, Head(prog).name, Head(prog).base, Head(prog).order),
             Tail(prog))

---------------------------------------------------------------------------
(* The record types and the values the model draws its inputs from. *)

int8_t(name, default) ==
    [k |-> "field", name |-> name, field_type |-> INT8_T, default |-> default,
     str_len |-> NoStrLen, base |-> "", order |-> ""]

uint8_t(name, default) == [int8_t(name, default) EXCEPT !.field_type = UINT8_T]

int16_t(name, default) == [int8_t(name, default) EXCEPT !.field_type = INT16_T]

uint16_t(name, default) == [int8_t(name, default) EXCEPT !.field_type = UINT16_T]

int32_t(name, default) == [int8_t(name, default) EXCEPT !.field_type = INT32_T]

uint32_t(name, default) == [int8_t(name, default) EXCEPT !.field_type = UINT32_T]

int64_t(name, default) == [int8_t(name, default) EXCEPT !.field_type = INT64_T]

uint64_t(name, default) == [int8_t(name, default) EXCEPT !.field_type = UINT64_T]

float32_t(name, default) == [int8_t(name, default) EXCEPT !.field_type = FLOAT32_T]

float64_t(name, default) == [int8_t(name, default) EXCEPT !.field_type = FLOAT64_T]

char(name, strlen, default) ==
    [int8_t(name, default) EXCEPT !.field_type = CHAR, !.str_len = StrLen(strlen)]

class(name, base, order) ==
    [k |-> "class", name |-> name, field_type |-> "", default |-> None,
     str_len |-> NoStrLen, base |-> base, order |-> order]

SmallInt(n) == PyInt(FALSE, IF n = 0 THEN <<>> ELSE <<n>>)

MinusOne == PyInt(TRUE, <<1>>)

(* -2.5, 0.1 and 16777217.0 = 2^24 + 1 *)
MinusTwoAndHalf == PyFloat(<<192, 4, 0, 0, 0, 0, 0, 0>>)

Tenth == PyFloat(<<63, 185, 153, 153, 153, 153, 153, 154>>)

TwoTo24Plus1 == PyFloat(<<65, 112, 0, 0, 16, 0, 0, 0>>)

(* the record types: the one of the spec's scenario (little-endian by
   default), a native base type and a type derived from it, a type of floats
   in network order, a type of integers in the native order with standard
   sizes, a big-endian type *)
Programs ==
    { <<uint32_t("id", SmallInt(0)), uint8_t("flag", SmallInt(1)),
        char("tag", 4, PyBytes(<<110, 111, 110, 101>>)),
        class("Rec", "Struct", "")>>,
      <<int8_t("x", None), int64_t("y", MinusOne),
        class("Base", "Struct", BYTE_ORDER_NATIVE),
        uint16_t("z", SmallInt(2)), class("Derived", "Base", "")>>,
      <<float32_t("u", MinusTwoAndHalf), float64_t("v", Tenth),
        class("Fl", "Struct", BYTE_ORDER_NETWORK)>>,
      <<int16_t("h", None), uint64_t("q", None), int32_t("i", MinusOne),
        class("Mix", "Struct", BYTE_ORDER_NATIVE_STD)>>,
      <<char("k", 2, None), uint32_t("w", SmallInt(9)),
        class("Tag", "Struct", BYTE_ORDER_BIG_ENDIAN)>> }

IntTypes == {INT8_T, UINT8_T, INT16_T, UINT16_T, INT32_T, UINT32_T, INT64_T, UINT64_T}

Signed(c) == c \in {INT8_T, INT16_T, INT32_T, INT64_T}

(* the largest and the smallest value of an integer type *)
IntMax(c) ==
    IF Signed(c) THEN PyInt(FALSE, [k \in 1..Width(c, 1) |-> IF k = Width(c, 1) THEN 127 ELSE 255])
    ELSE PyInt(FALSE, [k \in 1..Width(c, 1) |-> 255])

IntMin(c) ==
    IF Signed(c) THEN PyInt(TRUE, [k \in 1..Width(c, 1) |-> IF k = Width(c, 1) THEN 128 ELSE 0])
    ELSE SmallInt(0)

(* the values a field of format item it is set to *)
FieldVals(it) ==
    CASE it.c \in IntTypes -> {IntMax(it.c), IntMin(it.c), None}
      [] it.c \in {FLOAT32_T, FLOAT64_T} -> {Tenth, TwoTo24Plus1, None}
      [] OTHER -> {PyBytes([k \in 1..it.n |-> 96 + k]),
                   PyBytes([k \in 1..(it.n - 1) |-> 96 + k]), None}

UnknownNames == {"zz", "yy"}

(* the value a constructor keyword carries *)
KwVal(c, name) ==
    IF name \notin DOMAIN c._NAME_INDEX_MAP THEN SmallInt(1)
    ELSE LET it == c._BASE_STRUCT_FORMAT[c._NAME_INDEX_MAP[name] + 1]
         IN  CASE it.c \in IntTypes -> IntMax(it.c)
               [] it.c \in {FLOAT32_T, FLOAT64_T} -> TwoTo24Plus1
               [] OTHER -> PyBytes([k \in 1..it.n |-> 96 + k])

(* the byte strings handed to unpack: 1, 2, 3, ... of the size asked for, one
   byte short and one byte long; and bytes that are all 255 *)
Buffers(size) == {[k \in 1..n |-> k] : n \in {size - 1, size, size + 1} \cap Nat}

AllOnes(size) == [k \in 1..size |-> 255]

---------------------------------------------------------------------------
(* Records: one record r of class cls, and the calls made on it.  last is the
   latest call: its arguments, what it returned, what it raised. *)

Call(op) ==
    [op |-> op, exc |-> NoExc, name |-> "", arg |-> None, order |-> "",
     buf |-> <<>>, ret |-> None, kw |-> <<>>, keys |-> {}, n |-> 0]

NoFile == [data |-> <<>>, pos |-> 0]

(* the keyword arguments of a constructor call: no field, one field or every
   field, and any of the names that are no fields *)
KwArgs(c) ==
    { [nm \in K \cup U |-> KwVal(c, nm)] :
          K \in {{}, DOMAIN c._NAME_INDEX_MAP}
                     \cup {{nm} : nm \in DOMAIN c._NAME_INDEX_MAP},
          U \in {{}, {"zz"}, UnknownNames} }

(* what the latest call packed in byte order order, as it is, cut by a byte
   and with a byte more *)
Packed(op, order) ==
    IF last.op = op /\ last.order = order /\ last.exc = NoExc
    THEN {last.buf, Append(last.buf, 0)}
             \cup (IF last.buf = <<>> THEN {}
                   ELSE {SubSeq(last.buf, 1, Len(last.buf) - 1)})
    ELSE {}

Init ==
    /\ byteorder \in {"little", "big"}
    /\ \E prog \in Programs :
           LET st == Run(Imported, prog)
           IN  /\ count_ = st.count_
               /\ fields = st.fields
               /\ namespace = st.namespace
               /\ classes = st.classes
    /\ cls \in DOMAIN classes
    /\ values = StructInit(classes[cls], <<>>).values
    /\ fp = NoFile
    /\ last = Call("__init__")

(* r = cls(...) with keyword arguments; when __init__ raises, r stays the
   record it was *)
Construct ==
    \E kwargs \in KwArgs(classes[cls]) :
        LET r == StructInit(classes[cls], kwargs)
        IN  /\ values' = IF r.exc = NoExc THEN r.values ELSE values
            /\ last' = [Call("__init__") EXCEPT !.exc = r.exc, !.kw = kwargs,
                                                !.keys = r.keys]
            /\ UNCHANGED <<byteorder, count_, fields, namespace, classes, cls, fp>>

GetFieldValue ==
    \E name \in DOMAIN classes[cls]._NAME_INDEX_MAP \cup {"zz"} :
        LET r == get_field_value(classes[cls], values, name)
        IN  /\ last' = [Call("get_field_value") EXCEPT !.exc = r.exc, !.name = name,
                                                       !.ret = r.ret]
            /\ UNCHANGED <<byteorder, count_, fields, namespace, classes, cls, values, fp>>

SetFieldValue ==
    \E name \in DOMAIN classes[cls]._NAME_INDEX_MAP \cup {"zz"} :
        \E value \in IF name \in DOMAIN classes[cls]._NAME_INDEX_MAP
                     THEN FieldVals(classes[cls]._BASE_STRUCT_FORMAT[
                                        classes[cls]._NAME_INDEX_MAP[name] + 1])
                     ELSE {SmallInt(1)} :
            LET r == set_field_value(classes[cls], values, name, value)
            IN  /\ values' = r.values
                /\ last' = [Call("set_field_value") EXCEPT !.exc = r.exc,
                                                           !.name = name, !.arg = value]
                /\ UNCHANGED <<byteorder, count_, fields, namespace, classes, cls, fp>>

Pack ==
    LET r == pack(classes[cls], values)
    IN  /\ last' = [Call("pack") EXCEPT !.exc = r.exc, !.buf = r.b,
                                        !.order = classes[cls]._PACKER.order]
        /\ UNCHANGED <<byteorder, count_, fields, namespace, classes, cls, values, fp>>

PackEndian ==
    \E byte_order \in ByteOrders :
        LET r == pack_endian(classes[cls], values, byte_order)
        IN  /\ last' = [Call("pack_endian") EXCEPT !.exc = r.exc, !.buf = r.b,
                                                   !.order = byte_order]
            /\ UNCHANGED <<byteorder, count_, fields, namespace, classes, cls, values, fp>>

Unpack ==
    \E bytes_ \in Buffers(sizeof(classes[cls])) \cup {AllOnes(sizeof(classes[cls]))}
                      \cup Packed("pack", classes[cls]._PACKER.order) :
        LET r == unpack(classes[cls], values, bytes_)
        IN  /\ values' = r.values
            /\ last' = [Call("unpack") EXCEPT !.exc = r.exc, !.buf = bytes_,
                                              !.order = classes[cls]._PACKER.order]
            /\ UNCHANGED <<byteorder, count_, fields, namespace, classes, cls, fp>>

UnpackEndian ==
    \E byte_order \in ByteOrders :
        \E bytes_ \in Buffers(CalcSize(byte_order, classes[cls]._BASE_STRUCT_FORMAT))
                          \cup Packed("pack_endian", byte_order) :
            LET r == unpack_endian(classes[cls], values, bytes_, byte_order)
            IN  /\ values' = r.values
                /\ last' = [Call("unpack_endian") EXCEPT !.exc = r.exc, !.buf = bytes_,
                                                         !.order = byte_order]
                /\ UNCHANGED <<byteorder, count_, fields, namespace, classes, cls, fp>>

Sizeof ==
    /\ last' = [Call("sizeof") EXCEPT !.n = sizeof(classes[cls])]
    /\ UNCHANGED <<byteorder, count_, fields, namespace, classes, cls, values, fp>>

Next ==
    \/ Construct
    \/ GetFieldValue
    \/ SetFieldValue
    \/ Pack
    \/ PackEndian
    \/ Unpack
    \/ UnpackEndian
    \/ Sizeof

Spec == Init /\ [][Next]_vars

---------------------------------------------------------------------------
(* Declarations: field statements and class statements, in any order the
   bounds allow. *)

MaxCount == 3

DeclAttrs == {"a", "b"}

DeclTypes == {UINT8_T, CHAR}

ClassNames == {"B", "D"}

(* what the field constructors of lines 66-107 pass on: a default or none,
   and for char a length *)
DeclDefaults(field_type) == IF field_type = CHAR THEN {None} ELSE {None, SmallInt(7)}

DeclStrLens(field_type) ==
    IF field_type = CHAR THEN {NoStrLen, StrLen(-1), StrLen(0), StrLen(2)}
    ELSE {NoStrLen}

DeclCall(op) ==
    [op |-> op, exc |-> NoExc, name |-> "", field_type |-> "", str_len |-> NoStrLen,
     count |-> 0]

Interpreter ==
    [count_ |-> count_, fields |-> fields, namespace |-> namespace,
     classes |-> classes, exc |-> NoExc]

InitDecl ==
    /\ byteorder = "little"
    /\ count_ = Imported.count_
    /\ fields = Imported.fields
    /\ namespace = Imported.namespace
    /\ classes = Imported.classes
    /\ cls = "Struct"
    /\ values = StructInit(StructClass, <<>>).values
    /\ fp = NoFile
    /\ last = DeclCall("import")

FieldInit ==
    \E attr \in DeclAttrs, field_type \in DeclTypes :
        \E default \in DeclDefaults(field_type), str_len \in DeclStrLens(field_type) :
            LET st == FieldStatement(Interpreter, attr, field_type, default, str_len)
            IN  /\ count_ < MaxCount
                /\ count_' = st.count_
                /\ fields' = st.fields
                /\ namespace' = st.namespace
                /\ last' = [DeclCall("StructField") EXCEPT
                                !.exc = st.exc,
                                !.field_type = field_type, !.str_len = str_len,
                                !.count = count_]
                /\ UNCHANGED <<byteorder, classes, cls, values, fp>>

ClassNew ==
    \E name \in ClassNames \ DOMAIN classes, base \in DOMAIN classes :
        LET st == ClassStatement(Interpreter, name, base, "")
        IN  /\ fields' = st.fields
            /\ namespace' = st.namespace
            /\ classes' = st.classes
            /\ last' = [DeclCall("MetaStruct") EXCEPT
                            !.exc = st.exc, !.name = name, !.count = count_]
            /\ UNCHANGED <<byteorder, count_, cls, values, fp>>

NextDecl ==
    \/ FieldInit
    \/ ClassNew

SpecDecl == InitDecl /\ [][NextDecl]_vars

---------------------------------------------------------------------------
(* The stream helper: a FileHelper over a binary source, and the record the
   reads fill. *)

MaxStream == 24

(* the bytes of a source: 3, 10, 17, ... *)
StreamData(n) == [k \in 1..n |-> (7 * k - 4) % 256]

ReadCall(op) == [op |-> op, exc |-> NoExc, ret |-> FALSE]

InitStream ==
    /\ byteorder \in {"little", "big"}
    /\ \E prog \in Programs :
           LET st == Run(Imported, prog)
           IN  /\ count_ = st.count_
               /\ fields = st.fields
               /\ namespace = st.namespace
               /\ classes = st.classes
    /\ cls \in DOMAIN classes
    /\ values = StructInit(classes[cls], <<>>).values
    /\ \E n \in 0..MaxStream : fp = [data |-> StreamData(n), pos |-> 0]
    /\ last = ReadCall("FileHelper")

ReadInto ==
    LET r == read_into(fp, classes[cls], values)
    IN  /\ values' = r.values
        /\ fp' = r.fp
        /\ last' = [ReadCall("read_into") EXCEPT !.exc = r.exc, !.ret = r.ret]
        /\ UNCHANGED <<byteorder, count_, fields, namespace, classes, cls>>

NextStream == ReadInto

SpecStream == InitStream /\ [][NextStream]_vars

---------------------------------------------------------------------------
(* Properties.  R is the class of the record, and its layout. *)

R == classes[cls]

Layout == R._BASE_STRUCT_FORMAT

Position(name) == R._NAME_INDEX_MAP[name] + 1

RECURSIVE LookupAttr(_, _)
(* the descriptor attribute lookup finds for attr on class cn: that of the
   nearest class of the MRO which defines it, -1 when none does *)
LookupAttr(cn, attr) ==
    LET c == classes[cn]
    IN  IF \E i \in 1..Len(c.dict) : c.dict[i].attr = attr
        THEN c.dict[CHOOSE i \in 1..Len(c.dict) : c.dict[i].attr = attr].id
        ELSE IF c.base = "object" THEN -1
        ELSE LookupAttr(c.base, attr)

(* the width the spec's data model declares for a field *)
DeclaredWidth(it) ==
    CASE it.c \in {INT8_T, UINT8_T} -> 1
      [] it.c \in {INT16_T, UINT16_T} -> 2
      [] it.c \in {INT32_T, UINT32_T, FLOAT32_T} -> 4
      [] it.c \in {INT64_T, UINT64_T, FLOAT64_T} -> 8
      [] it.c = CHAR -> it.n

RECURSIVE SumOfWidths(_)
SumOfWidths(fmt) ==
    IF fmt = <<>> THEN 0 ELSE DeclaredWidth(Head(fmt)) + SumOfWidths(Tail(fmt))

(* field by field, in position order, Python's == *)
SameValues(a, b) ==
    /\ Len(a.items) = Len(b.items)
    /\ \A k \in 1..Len(a.items) : PyEq(a.items[k], b.items[k])

(* every fixedBytes field holds a byte string of exactly its length *)
ExactLengths(vals) ==
    \A k \in 1..Len(Layout) :
        Layout[k].c = CHAR => vals.items[k].t = "bytes" /\ Len(vals.items[k].d) = Layout[k].n

(* a double that is the value of some IEEE-754 single: an infinity, a zero, or
   a fraction that fits the 23 bits of a normal single or the fewer of a
   subnormal one *)
IsSingle(d8) ==
    LET bits == BytesBits(d8)
        E == BitsNat(SubSeq(bits, 2, 12))
        F == SubSeq(bits, 13, 64)
        e == E - 1023
        kept == IF e >= -126 THEN 23 ELSE 149 + e
    IN  IF E = 2047 \/ E = 0 THEN \A i \in 1..52 : F[i] = 0
        ELSE e <= 127 /\ e >= -149 /\ \A i \in (kept + 1)..52 : F[i] = 0

(* every float field holds a float that is no NaN, and every float32 field a
   single *)
Representable(vals) ==
    \A k \in 1..Len(Layout) :
        Layout[k].c \in {FLOAT32_T, FLOAT64_T} =>
            /\ vals.items[k].t = "float"
            /\ ~IsNaN(vals.items[k])
            /\ Layout[k].c = FLOAT32_T => IsSingle(vals.items[k].d)

(* this step unpacks, in the same byte order, the bytes the step before packed *)
UnpacksThePacked ==
    /\ last.exc = NoExc
    /\ last'.buf = last.buf
    /\ \/ last.op = "pack" /\ last'.op = "unpack"
       \/ last.op = "pack_endian" /\ last'.op = "unpack_endian" /\ last'.order = last.order

(* C1, as the spec states it: packing a record of valid values and unpacking
   the bytes, both with the declared byte order or both with the same explicit
   one, yields values equal, field by field, to the original ones. *)
C1_RoundTrip_AsStated ==
    [][UnpacksThePacked /\ ExactLengths(values)
           => last'.exc = NoExc /\ SameValues(values', values)]_vars

(* C1, amended: the round trip returns equal values when, besides, every
   float field holds a float that is no NaN and every float32 field holds a
   value that IEEE-754 single precision represents exactly. *)
C1_RoundTrip ==
    [][UnpacksThePacked /\ ExactLengths(values) /\ Representable(values)
           => last'.exc = NoExc /\ SameValues(values', values)]_vars

(* a record of floats, float32 among them, unpacked from its own packed bytes *)
C1_Witness ==
    /\ cls = "Fl"
    /\ last.op \in {"unpack", "unpack_endian"}
    /\ last.exc = NoExc
    /\ values = [kind |-> "tuple", items |-> <<MinusTwoAndHalf, Tenth>>]

(* C2, as the spec states it: the packed bytes are Size() long, and Size() is
   the sum of the declared field widths, for every declared byte order, the
   native one with platform alignment included. *)
C2_Size_AsStated ==
    /\ last.op = "pack" /\ last.exc = NoExc =>
           Len(last.buf) = sizeof(R) /\ Len(last.buf) = SumOfWidths(Layout)
    /\ last.op = "sizeof" => last.n = SumOfWidths(Layout)

(* the sum of the declared widths, which the native order may exceed *)
SizeLaw(n) ==
    IF R._PACKER.order = BYTE_ORDER_NATIVE THEN n >= SumOfWidths(Layout)
    ELSE n = SumOfWidths(Layout)

(* C2, amended: the packed bytes are Size() long whatever the values; Size()
   is the sum of the declared field widths for the byte orders = < > !, and at
   least that sum for the native order @, which pads fields to their
   alignment. *)
C2_Size ==
    /\ last.op = "pack" /\ last.exc = NoExc =>
           Len(last.buf) = sizeof(R) /\ SizeLaw(Len(last.buf))
    /\ last.op = "sizeof" => SizeLaw(last.n)

(* a packed record of fields of several widths, in a byte order without
   alignment *)
C2_Witness ==
    /\ cls = "Mix"
    /\ last.op = "pack"
    /\ last.exc = NoExc
    /\ Len(last.buf) = 14

(* C5: a constructor call with a keyword that is no field raises
   StructException, which reports every such keyword; with fields only it
   succeeds, each named position holding the value passed and every other
   position the default of its field. *)
C5_Construct ==
    last.op = "__init__" =>
        LET unknown == DOMAIN last.kw \ DOMAIN R._NAME_INDEX_MAP
        IN  IF unknown # {}
            THEN last.exc = "StructException" /\ last.keys = unknown
            ELSE /\ last.exc = NoExc
                 /\ values.kind = "list"
                 /\ Len(values.items) = Cardinality(DOMAIN R._NAME_INDEX_MAP)
                 /\ \A nm \in DOMAIN R._NAME_INDEX_MAP :
                        values.items[Position(nm)] =
                            IF nm \in DOMAIN last.kw THEN last.kw[nm]
                            ELSE fields[LookupAttr(cls, nm)].default

(* a constructor call with a field and two unknown names, refused *)
C5_Witness ==
    /\ last.op = "__init__"
    /\ last.exc = "StructException"
    /\ last.keys = UnknownNames
    /\ DOMAIN last.kw \cap DOMAIN R._NAME_INDEX_MAP # {}

(* C6: Get and Set with a name that is no field raise the library's own
   exception, StructException, the one bad descriptors and bad constructor
   names raise. *)
C6_UnknownName ==
    last.op \in {"get_field_value", "set_field_value"}
        /\ last.name \notin DOMAIN R._NAME_INDEX_MAP
    => last.exc = "StructException"

(* where field k starts in the packed bytes *)
FieldOffset(order, fmt, k) ==
    AlignUp(CalcSize(order, SubSeq(fmt, 1, k - 1)), Alignment(order, fmt[k].c))

(* C7: unpack and unpack_endian with bytes that are not exactly the size of
   the record in the byte order used raise struct.error and leave the values
   as they were; with bytes of that size every position holds the value
   decoded from the field's bytes. *)
C7_Unpack ==
    [][last'.op \in {"unpack", "unpack_endian"} =>
           IF Len(last'.buf) # CalcSize(last'.order, Layout)
           THEN last'.exc = "struct.error" /\ values' = values
           ELSE /\ last'.exc = NoExc
                /\ Len(values'.items) = Len(Layout)
                /\ \A k \in 1..Len(Layout) :
                       values'.items[k] =
                           UnpackItem(last'.order, Layout[k].c,
                               SubSeq(last'.buf,
                                      FieldOffset(last'.order, Layout, k) + 1,
                                      FieldOffset(last'.order, Layout, k)
                                          + DeclaredWidth(Layout[k])))]_vars

(* unpack_endian refused bytes one too many, the record keeping its list *)
C7_Witness ==
    /\ last.op = "unpack_endian"
    /\ last.exc = "struct.error"
    /\ Len(last.buf) = CalcSize(last.order, Layout) + 1
    /\ values.kind = "list"
    /\ Len(values.items) >= 2

(* C10: in every state the record holds one value per field, and Set with a
   field name succeeds, after which Get of that name returns the value set. *)
C10_Mutable ==
    /\ Len(values.items) = Cardinality(DOMAIN R._NAME_INDEX_MAP)
    /\ last.op = "set_field_value" /\ last.name \in DOMAIN R._NAME_INDEX_MAP
       => /\ last.exc = NoExc
          /\ get_field_value(R, values, last.name).ret = last.arg

---------------------------------------------------------------------------
(* Properties of class definitions. *)

(* the attributes class cn defines itself *)
OwnAttrs(cn) == {classes[cn].dict[i].attr : i \in 1..Len(classes[cn].dict)}

(* the user's classes: every class but Struct *)
Defined == {cn \in DOMAIN classes : classes[cn].base # "object"}

(* C3: in every compiled layout the fields are the descriptors attribute
   lookup finds, their positions 0..n-1 and their places in the format follow
   the descriptors' counters, and a derived class that adds fields keeps its
   base's fields at their positions, its own following them. *)
C3_DeclarationOrder ==
    \A cn \in Defined :
        LET c == classes[cn]
            nim == c._NAME_INDEX_MAP
            base == classes[c.base]._NAME_INDEX_MAP
        IN  /\ DOMAIN nim = {x \in DeclAttrs : LookupAttr(cn, x) # -1}
            /\ {nim[x] : x \in DOMAIN nim} = 0..(Len(c._BASE_STRUCT_FORMAT) - 1)
            /\ \A x, y \in DOMAIN nim :
                   fields[LookupAttr(cn, x)].count < fields[LookupAttr(cn, y)].count
                       => nim[x] < nim[y]
            /\ \A x \in DOMAIN nim :
                   c._BASE_STRUCT_FORMAT[nim[x] + 1] = FormatItem(fields[LookupAttr(cn, x)])
            /\ OwnAttrs(cn) \cap DOMAIN base = {} =>
                   /\ \A x \in DOMAIN base : nim[x] = base[x]
                   /\ \A x \in OwnAttrs(cn) : nim[x] >= Cardinality(DOMAIN base)

(* a derived class that adds a field to its base's, the layout against the
   alphabetical order of the names *)
C3_Witness ==
    \E cn \in Defined :
        /\ classes[cn].base # "Struct"
        /\ classes[cn]._NAME_INDEX_MAP = [x \in DeclAttrs |-> IF x = "b" THEN 0 ELSE 1]
        /\ OwnAttrs(cn) = {"a"}

(* C4: constructing a CHAR descriptor with a length omitted, 0 or negative
   raises StructException and leaves the counter as it was; every other
   construction succeeds and takes the next counter value. *)
C4_CharLength ==
    last.op = "StructField" =>
        IF last.field_type = CHAR /\ (last.str_len = NoStrLen \/ last.str_len.n <= 0)
        THEN last.exc = "StructException" /\ count_ = last.count
        ELSE last.exc = NoExc /\ count_ = last.count + 1

(* C9: a field a derived class redeclares has one slot in the derived layout,
   with the derived descriptor's type, length and default, at the position
   the field has in the base's layout. *)
C9_Override ==
    \A cn \in Defined :
        LET c == classes[cn]
            nim == c._NAME_INDEX_MAP
            base == classes[c.base]._NAME_INDEX_MAP
        IN  \A x \in OwnAttrs(cn) \cap DOMAIN base :
                /\ x \in DOMAIN nim
                /\ c._BASE_STRUCT_FORMAT[nim[x] + 1] = FormatItem(fields[LookupAttr(cn, x)])
                /\ c._DEFAULT_VALUES[nim[x] + 1] = fields[LookupAttr(cn, x)].default
                /\ nim[x] = base[x]

---------------------------------------------------------------------------
(* Properties of the stream helper. *)

(* C8: a read_into that finds fewer than sizeof bytes left returns False,
   raises nothing and leaves the values as they were; one that finds at least
   sizeof bytes unpacks the next sizeof bytes and returns True.  So the reads
   that succeed end on record boundaries, and the one that fails finds the
   source consumed. *)
C8_ReadInto ==
    /\ [][last'.op = "read_into" =>
              LET size == sizeof(R)
              IN  IF Len(fp.data) - fp.pos < size
                  THEN /\ last'.exc = NoExc
                       /\ last'.ret = FALSE
                       /\ values' = values
                  ELSE /\ last'.exc = NoExc
                       /\ last'.ret = TRUE
                       /\ fp'.pos = fp.pos + size
                       /\ values'.items =
                              StructUnpack(R._PACKER.order, Layout,
                                  SubSeq(fp.data, fp.pos + 1, fp.pos + size)).items]_vars
    /\ [](last.op = "read_into" /\ sizeof(R) > 0 =>
              IF last.ret
              THEN \E k \in 1..(Len(fp.data) \div sizeof(R)) : fp.pos = k * sizeof(R)
              ELSE fp.pos = Len(fp.data))

(* the source ran out inside a record, records having been read before *)
C8_Witness ==
    /\ last.op = "read_into"
    /\ last.ret = FALSE
    /\ sizeof(R) > 0
    /\ Len(fp.data) >= 2 * sizeof(R)
    /\ Len(fp.data) % sizeof(R) # 0
    /\ values.kind = "tuple"

====
